---- MODULE Spec2Model ----
(***************************************************************************)
(* DocumentPortal: the in-memory document registry and blob store          *)
(* (server/storage.ts, MemStorage) and the REST handlers that drive them   *)
(* (server/routes.ts), with the connection-counting middleware of          *)
(* server/index.ts.                                                        *)
(*                                                                         *)
(* Strings are modelled as sequences of atoms ("tokens").  A path such as  *)
(* "memory://results/1700-form.docx" is <<"memory://results", "/", "t1",   *)
(* "-form.docx">>.  The separator before the file name is always its own   *)
(* atom, so basename, startsWith, endsWith and includes are computed on    *)
(* the token sequence exactly as the JavaScript computes them on the       *)
(* characters.  No atom of the universe is a proper suffix of another, and *)
(* the only atom that contains another searched substring is               *)
(* "-template_processed.docx" (see TokIncludes).                           *)
(*                                                                         *)
(* The JavaScript runtime is single threaded: a handler runs without       *)
(* interleaving from one I/O suspension (the fetch to the Python server,   *)
(* the wait for a child process) to the next.  An await on a MemStorage    *)
(* method resumes in the same microtask drain, before any other request    *)
(* handler starts, so each action below is one such segment.               *)
(***************************************************************************)
EXTENDS Integers, Sequences, FiniteSets, Bags, TLC

VARIABLES
  documents,          \* MemStorage.documents: id -> Document record
  fileContents,       \* MemStorage.fileContents: insertion-ordered Map path -> Buffer
  currentDocumentId,  \* MemStorage.currentDocumentId
  activeConnections,  \* server/index.ts activeConnections
  now,                \* Date.now(), as an index into the clock
  inflight,           \* handlers suspended on the external processor
  last,               \* the request handled by the last step and its response
  hist,               \* history per registry id (what the document was created from)
  issued,             \* the highest id createDocument has returned in this process
  openPages           \* counted page responses that have not emitted 'close' yet

vars == <<documents, fileContents, currentDocumentId, activeConnections, now,
          inflight, last, hist, issued, openPages>>

-----------------------------------------------------------------------------
(* Bounds of the model *)

MaxTime == 2        \* clock values 1..MaxTime
MaxId == 2          \* createDocument is explored while currentDocumentId <= MaxId
MaxBlobs == 2       \* fileContents holds at most MaxBlobs entries
MaxInflight == 2    \* handlers suspended at once
MaxConn == 2        \* page connections open at once

-----------------------------------------------------------------------------
(* Strings *)

Null == <<>>                 \* null / undefined / "" (all falsy in the handlers)
Unset == "undefined"         \* the status read from a record that has no status property
Undefined == <<-1>>          \* getFile's "not found" result

Max(S) == CHOOSE x \in S : \A y \in S : y <= x
Min(S) == CHOOSE x \in S : \A y \in S : x <= y

StartsWith(s, p) == Len(s) >= Len(p) /\ SubSeq(s, 1, Len(p)) = p
EndsWith(s, p) == Len(s) >= Len(p) /\ SubSeq(s, Len(s) - Len(p) + 1, Len(s)) = p

\* the one atom that contains searched substrings other than itself
TokIncludes(tok, sub) ==
  \/ tok = sub
  \/ tok = "-template_processed.docx" /\ sub \in {"template_processed", "_processed"}

Includes(s, sub) == \E i \in 1..Len(s) : TokIncludes(s[i], sub)

\* path.basename: what follows the last separator
basename(p) ==
  LET seps == {i \in 1..Len(p) : p[i] = "/"}
  IN IF seps = {} THEN p ELSE SubSeq(p, Max(seps) + 1, Len(p))

MemResults == <<"memory://results", "/">>
MemInput == <<"memory://input", "/">>
DocsOutput == <<"documents/output", "/">>
DocsInput == <<"documents/input", "/">>
ResultsDir == <<"Results", "/">>

TimeStr(t) == IF t = 1 THEN "t1" ELSE IF t = 2 THEN "t2" ELSE IF t = 3 THEN "t3" ELSE "t4"

DocxMime == "application/vnd.openxmlformats-officedocument.wordprocessingml.document"

SUPPORTED_FILE_TYPES ==
  { "application/pdf", "application/msword", DocxMime,
    "application/vnd.ms-excel",
    "application/vnd.openxmlformats-officedocument.spreadsheetml.sheet",
    "application/vnd.ms-powerpoint",
    "application/vnd.openxmlformats-officedocument.presentationml.presentation",
    "text/plain", "image/jpeg", "image/png" }

templateName == <<"DO_UW WS TEMPLATE_May 2022_use this.docx">>

-----------------------------------------------------------------------------
(* Inputs *)

Bytes == { <<1>>, <<2, 2>> }                        \* file contents
OrigNames == { <<"a.pdf">>, <<"b", "-form.docx">> } \* req.file.originalname
Rand == { "r1", "r2" }                              \* Math.round(Math.random() * 1E9)
UploadMimes == { "application/pdf", "text/html" }   \* req.file.mimetype
FormNames == { <<"c.pdf">>, <<"d", "-form.docx">> } \* req.body.name of form-document-upload
\* req.body.name with a directory part, as the handler's baseName computation expects
\* req.body.name of a generated output, a filled form and two plain files
ListNames == { <<"DO_UW WS_", "e.docx">>, <<"d", "-form.docx">>, <<"c.pdf">>, <<"f.pdf">> }
AliasNames == { <<"x", "/", "b", "-form.docx">>, <<"d", "-form.docx">>, <<"c.pdf">> }
FormTypes == { DocxMime }                           \* req.body.type
\* req.body.type is any string the client sends
AnyFormTypes == { DocxMime, "text/html" }
\* filePath arguments of getFile that carry no directory part
BareNames == OrigNames \cup FormNames
Statuses == { "pending", "processing", "processed", "error" }
StatusInputs == Statuses \cup { "done" }            \* req.body.status of set-status
ReqIds == 1..(MaxId + 1)                            \* :id of a request

-----------------------------------------------------------------------------
(* The insertion-ordered Map fileContents *)

MapHas(fc, p) == \E i \in 1..Len(fc) : fc[i].path = p
MapGet(fc, p) == fc[CHOOSE i \in 1..Len(fc) : fc[i].path = p].buf
MapSet(fc, p, b) ==
  IF MapHas(fc, p)
  THEN [i \in 1..Len(fc) |-> IF fc[i].path = p THEN [path |-> p, buf |-> b] ELSE fc[i]]
  ELSE Append(fc, [path |-> p, buf |-> b])
MapDelete(fc, p) == SelectSeq(fc, LAMBDA e : e.path # p)

-----------------------------------------------------------------------------
(* MemStorage *)

\* saveFile: the virtual path chosen for a name
virtualPathOf(originalName) ==
  IF Includes(originalName, "-form.docx") \/ Includes(originalName, "template_processed")
  THEN MemResults \o originalName
  ELSE MemInput \o originalName

saveFile(fc, originalName, fileBuffer) ==
  [path |-> virtualPathOf(originalName),
   fc |-> MapSet(fc, virtualPathOf(originalName), fileBuffer)]

getFile(fc, filePath) ==
  IF filePath = Null THEN Undefined
  ELSE
    LET n1 == IF StartsWith(filePath, DocsOutput)
              THEN MemResults \o basename(filePath) ELSE filePath
        n2 == IF StartsWith(n1, DocsInput)
              THEN MemInput \o basename(n1) ELSE n1
        normalizedPath == IF StartsWith(n2, ResultsDir)
                          THEN MemResults \o basename(n2) ELSE n2
        fileName == basename(normalizedPath)
        byName == {i \in 1..Len(fc) : EndsWith(fc[i].path, fileName)}
        processedLike == {i \in 1..Len(fc) :
                            Includes(fc[i].path, "-form.docx")
                            \/ Includes(fc[i].path, "_processed")}
    IN IF MapHas(fc, normalizedPath) THEN MapGet(fc, normalizedPath)
       ELSE IF byName # {} THEN fc[Min(byName)].buf
       ELSE IF (Includes(fileName, "-form.docx") \/ Includes(fileName, "_processed"))
               /\ processedLike # {}
            THEN fc[Min(processedLike)].buf
       ELSE Undefined

\* createDocument: the record stored under the next id.  The record is the spread of
\* insertDocument: a property the caller left out is absent from it
createDocument(docs, nextId, insertDocument, time) ==
  LET document == [id |-> nextId,
                   name |-> insertDocument.name,
                   originalName |-> insertDocument.originalName,
                   mimeType |-> insertDocument.mimeType,
                   size |-> insertDocument.size,
                   path |-> insertDocument.path,
                   status |-> IF "status" \in DOMAIN insertDocument
                              THEN insertDocument.status ELSE Unset,
                   processedPath |-> IF "processedPath" \in DOMAIN insertDocument
                                     THEN insertDocument.processedPath ELSE Null,
                   uploadedAt |-> time]
  IN [docs |-> [i \in DOMAIN docs \cup {nextId} |->
                  IF i = nextId THEN document ELSE docs[i]],
      nextId |-> nextId + 1,
      document |-> document]

\* mutant: the copy of the record is stored without the new status
updateDocumentStatus_lost(docs, id, status) == docs

updateDocumentStatus(docs, id, status) ==
  IF id \notin DOMAIN docs THEN docs
  ELSE [docs EXCEPT ![id].status = status]

updateProcessedDocument(docs, id, status, processedPath) ==
  IF id \notin DOMAIN docs THEN docs
  ELSE [docs EXCEPT ![id].status = status,
                    ![id].processedPath =
                       IF processedPath # Null /\ StartsWith(processedPath, DocsOutput)
                       THEN MemResults \o basename(processedPath)
                       ELSE processedPath]

\* deleteDocument: the blobs are removed only under the record's literal paths
deleteDocumentFiles(fc, document) ==
  LET fc1 == IF MapHas(fc, document.path) THEN MapDelete(fc, document.path) ELSE fc
  IN IF document.processedPath # Null /\ MapHas(fc1, document.processedPath)
     THEN MapDelete(fc1, document.processedPath)
     ELSE fc1

deleteDocument(docs, fc, id) ==
  IF id \notin DOMAIN docs
  THEN [ok |-> FALSE, docs |-> docs, fc |-> fc]
  ELSE [ok |-> TRUE,
        docs |-> [i \in DOMAIN docs \ {id} |-> docs[i]],
        fc |-> deleteDocumentFiles(fc, docs[id])]

\* mutant: only the input loop runs
clearedFiles_inputOnly(fc) == SelectSeq(fc, LAMBDA e : ~StartsWith(e.path, MemInput))

\* mutant: the loops delete while they iterate and skip every second entry
clearedFiles_skipping(fc) == [i \in 1..(Len(fc) \div 2) |-> fc[2 * i]]

\* clearInputAndOutputDirectories: the blob store after the two loops
clearedFiles(fc) ==
  LET fc1 == SelectSeq(fc, LAMBDA e : ~StartsWith(e.path, MemInput))
  IN SelectSeq(fc1, LAMBDA e : ~StartsWith(e.path, MemResults))

\* mutant: the counter is reset while the registry keeps its records
clearInputAndOutputDirectories_keepsRecords(docs, fc, nextId) ==
  [docs |-> docs, fc |-> clearedFiles(fc), nextId |-> 1]

\* clearInputAndOutputDirectories: the storage after the call
clearInputAndOutputDirectories(docs, fc, nextId) ==
  [docs |-> <<>>, fc |-> clearedFiles(fc), nextId |-> 1]

getAllFileNames(fc) ==
  [i \in 1..Len(fc) |->
     IF StartsWith(fc[i].path, MemResults) THEN ResultsDir \o basename(fc[i].path)
     ELSE IF StartsWith(fc[i].path, MemInput) THEN DocsInput \o basename(fc[i].path)
     ELSE fc[i].path]

-----------------------------------------------------------------------------
(* Requests, responses and history *)

\* what the last step handled: the route, its :id (for a sweep, the number of records
\* it cleared), the HTTP status sent (0 while the handler is still suspended or when
\* there is no response), a note (the status named in a message, or the upstream
\* outcome), and for a delete the paths of the deleted record
Resp(op, id, code, note, path, ppath) ==
  [op |-> op, id |-> id, code |-> code, note |-> note, path |-> path, ppath |-> ppath,
   body |-> <<>>]

Request(kind, id, ts) == [kind |-> kind, id |-> id, ts |-> ts]

\* life: "fresh" until the document is dispatched to the processor ("dispatched", then
\* "twice"); "touched" once set-status has written its status
HistEntry(route, bytes) == [route |-> route, bytes |-> bytes, life |-> "fresh"]

HistPut(h, id, e) == [i \in DOMAIN h \cup {id} |-> IF i = id THEN e ELSE h[i]]
HistDrop(h, id) == [i \in DOMAIN h \ {id} |-> h[i]]

CanCreate == currentDocumentId <= MaxId
CanStore(p) == MapHas(fileContents, p) \/ Len(fileContents) < MaxBlobs
CanSuspend == BagCardinality(inflight) < MaxInflight

-----------------------------------------------------------------------------
(* POST /api/documents *)

uploadFileName(time, rnd, originalname) == <<TimeStr(time), "-", rnd, "-">> \o originalname

UploadRejected(mime) ==
  /\ mime \notin SUPPORTED_FILE_TYPES
  /\ last' = Resp("upload", 0, 500, "unsupported", Null, Null)
  /\ UNCHANGED <<documents, fileContents, currentDocumentId, activeConnections,
                 openPages, now, inflight, hist, issued>>

UploadAccepted(originalname, mime, buf, rnd) ==
  LET fileName == uploadFileName(now, rnd, originalname)
      saved == saveFile(fileContents, fileName, buf)
      documentData == [name |-> originalname, originalName |-> originalname,
                       mimeType |-> mime, size |-> Len(buf), path |-> saved.path,
                       status |-> "pending", processedPath |-> Null]
      created == createDocument(documents, currentDocumentId, documentData, now)
  IN /\ mime \in SUPPORTED_FILE_TYPES
     /\ CanCreate /\ CanStore(saved.path)
     /\ fileContents' = saved.fc
     /\ documents' = created.docs
     /\ currentDocumentId' = created.nextId
     /\ issued' = Max({issued, created.document.id})
     /\ hist' = HistPut(hist, created.document.id, HistEntry("upload", buf))
     /\ last' = Resp("upload", created.document.id, 201, "pending", Null, Null)
     /\ UNCHANGED <<activeConnections, openPages, now, inflight>>

Upload ==
  \E originalname \in OrigNames, mime \in UploadMimes, buf \in Bytes, rnd \in Rand :
    \/ UploadRejected(mime)
    \/ UploadAccepted(originalname, mime, buf, rnd)

\* POST /api/documents of the earlier routes variant: the file is saved under its own
\* name and the metadata handed to createDocument carries no status
UploadEarlier(originalname, mime, buf) ==
  LET saved == saveFile(fileContents, originalname, buf)
      documentData == [name |-> originalname, originalName |-> originalname,
                       mimeType |-> mime, size |-> Len(buf), path |-> saved.path]
      created == createDocument(documents, currentDocumentId, documentData, now)
  IN /\ mime \in SUPPORTED_FILE_TYPES
     /\ CanCreate /\ CanStore(saved.path)
     /\ fileContents' = saved.fc
     /\ documents' = created.docs
     /\ currentDocumentId' = created.nextId
     /\ issued' = Max({issued, created.document.id})
     /\ hist' = HistPut(hist, created.document.id, HistEntry("uploadEarlier", buf))
     /\ last' = Resp("uploadEarlier", created.document.id, 201, created.document.status,
                     Null, Null)
     /\ UNCHANGED <<activeConnections, openPages, now, inflight>>

-----------------------------------------------------------------------------
(* POST /api/documents/:id/process *)

ProcessNotFound(id) ==
  /\ id \notin DOMAIN documents
  /\ last' = Resp("process", id, 404, "", Null, Null)
  /\ UNCHANGED <<documents, fileContents, currentDocumentId, activeConnections,
                 openPages, now, inflight, hist, issued>>

\* mutants of the lifecycle guard: a failed document may be retried; a document
\* already being processed passes
processGuard_retryOnError(document) == document.status \in {"pending", "error"}
processGuard_passProcessing(document) == document.status \in {"pending", "processing"}

\* the lifecycle guard of the handler
processGuard(document) == document.status = "pending"

ProcessRejected(id) ==
  /\ id \in DOMAIN documents
  /\ ~processGuard(documents[id])
  /\ last' = Resp("process", id, 400, documents[id].status, Null, Null)
  /\ UNCHANGED <<documents, fileContents, currentDocumentId, activeConnections,
                 openPages, now, inflight, hist, issued>>

\* the status write, then the fetch to the Python server: the handler suspends
ProcessDispatch(id) ==
  LET docs1 == updateDocumentStatus(documents, id, "processing")
  IN /\ id \in DOMAIN documents
     /\ processGuard(documents[id])
     /\ CanSuspend
     /\ documents' = docs1
     /\ inflight' = inflight (+) SetToBag({Request("process", id, 0)})
     /\ issued' = issued
     /\ hist' = [hist EXCEPT ![id].life = IF @ = "fresh" THEN "dispatched"
                                          ELSE IF @ = "dispatched" THEN "twice" ELSE @]
     /\ last' = Resp("process", id, 0, docs1[id].status, Null, Null)
     /\ UNCHANGED <<fileContents, currentDocumentId, activeConnections, openPages, now>>

ProcessStart ==
  \E id \in ReqIds : ProcessNotFound(id) \/ ProcessRejected(id) \/ ProcessDispatch(id)

\* OK with a JSON body; a non-OK answer (or a body that is not JSON); no connection
UpstreamOutcomes == { "ok", "notOk", "fetchFailed" }

\* the Python server answered OK with a JSON body
ProcessSucceeded(r) ==
  /\ inflight' = inflight (-) SetToBag({r})
  /\ last' = Resp("processDone", r.id, 200, "ok", Null, Null)
  /\ UNCHANGED <<documents, fileContents, currentDocumentId, activeConnections,
                 openPages, now, hist, issued>>

\* mutant: the failure is answered without the status write
markFailed_skipped(docs, id) == docs

\* the status write of the catch blocks
markFailed(docs, id) == updateDocumentStatus(docs, id, "error")

\* the catch blocks: status 'error', then the 500
ProcessFailed(r, outcome) ==
  /\ outcome # "ok"
  /\ inflight' = inflight (-) SetToBag({r})
  /\ documents' = markFailed(documents, r.id)
  /\ last' = Resp("processDone", r.id, 500, outcome, Null, Null)
  /\ UNCHANGED <<fileContents, currentDocumentId, activeConnections, openPages, now,
                 hist, issued>>

ProcessResponse ==
  \E r \in BagToSet(inflight) :
    /\ r.kind = "process"
    /\ \/ ProcessSucceeded(r)
       \/ \E outcome \in UpstreamOutcomes : ProcessFailed(r, outcome)

-----------------------------------------------------------------------------
(* DELETE /api/documents/:id *)

Delete ==
  \E id \in ReqIds :
    LET d == deleteDocument(documents, fileContents, id)
    IN IF d.ok
       THEN /\ documents' = d.docs
            /\ fileContents' = d.fc
            /\ issued' = issued
            /\ hist' = HistDrop(hist, id)
            /\ last' = Resp("delete", id, 200, "", documents[id].path,
                            documents[id].processedPath)
            /\ UNCHANGED <<currentDocumentId, activeConnections, openPages, now,
                           inflight>>
       ELSE /\ last' = Resp("delete", id, 404, "", Null, Null)
            /\ UNCHANGED <<documents, fileContents, currentDocumentId, activeConnections,
                           openPages, now, inflight, hist, issued>>

-----------------------------------------------------------------------------
(* GET /api/documents/:id/download: the response, a function of the state *)

Download(docs, fc, id) ==
  IF id \notin DOMAIN docs
  THEN \* ids from 1000 up read the directory "memory://output", which throws
       IF id >= 1000 THEN [code |-> 500, body |-> Undefined]
       ELSE [code |-> 404, body |-> Undefined]
  ELSE LET fileBuffer == getFile(fc, docs[id].path)
       IN IF fileBuffer = Undefined THEN [code |-> 404, body |-> Undefined]
          ELSE [code |-> 200, body |-> fileBuffer]

-----------------------------------------------------------------------------
(* GET /api/documents/:id/download-processed: the response, a function of the state *)

\* fs.existsSync on the virtual directory "memory://results" and on the files under it:
\* the directories of MemStorage are names only, nothing creates them on the disk
resultsDirOnDisk == FALSE

DownloadProcessed(docs, fc, id) ==
  IF id \notin DOMAIN docs
  THEN \* ids from 1000 up: the Results branch is skipped, and the fallback reads the
       \* directory "memory://output", which throws
       IF id >= 1000 /\ ~resultsDirOnDisk THEN [code |-> 500, body |-> Undefined]
       ELSE [code |-> 404, body |-> Undefined]
  ELSE LET processedPath ==
             IF /\ docs[id].processedPath # Null
                /\ StartsWith(docs[id].processedPath, DocsOutput)
                /\ resultsDirOnDisk
             THEN ResultsDir \o basename(docs[id].processedPath)
             ELSE docs[id].processedPath
           fileBuffer == getFile(fc, processedPath)
       IN IF fileBuffer = Undefined THEN [code |-> 404, body |-> Undefined]
          ELSE [code |-> 200, body |-> fileBuffer]

-----------------------------------------------------------------------------
(* POST /api/documents/:id/set-status *)

\* mutant: the route accepts whatever status the request names
validStatuses_any == StatusInputs

validStatuses == { "pending", "processing", "processed", "error" }

\* req.body.status is drawn from statuses
SetStatusOf(statuses) ==
  \E id \in ReqIds, status \in statuses :
    IF status \notin validStatuses
    THEN /\ last' = Resp("setStatus", id, 400, status, Null, Null)
         /\ UNCHANGED <<documents, fileContents, currentDocumentId, activeConnections,
                        openPages, now, inflight, hist, issued>>
    ELSE IF id \notin DOMAIN documents
    THEN /\ last' = Resp("setStatus", id, 404, status, Null, Null)
         /\ UNCHANGED <<documents, fileContents, currentDocumentId, activeConnections,
                        openPages, now, inflight, hist, issued>>
    ELSE /\ documents' = updateDocumentStatus(documents, id, status)
         /\ issued' = issued
         /\ hist' = [hist EXCEPT ![id].life = "touched"]
         /\ last' = Resp("setStatus", id, 200, status, Null, Null)
         /\ UNCHANGED <<fileContents, currentDocumentId, activeConnections, openPages,
                        now, inflight>>

SetStatus == SetStatusOf(StatusInputs)

-----------------------------------------------------------------------------
(* POST /api/process-template *)

\* uniqueId = Date.now() is taken before the script runs; the handler then waits
ProcessTemplateStart ==
  /\ CanSuspend
  /\ inflight' = inflight (+) SetToBag({Request("template", 0, now)})
  /\ last' = Resp("template", 0, 0, "", Null, Null)
  /\ UNCHANGED <<documents, fileContents, currentDocumentId, activeConnections,
                 openPages, now, hist, issued>>

\* the script failed or timed out, or left no output file
ProcessTemplateFailed(r) ==
  /\ inflight' = inflight (-) SetToBag({r})
  /\ last' = Resp("templateDone", 0, 500, "failed", Null, Null)
  /\ UNCHANGED <<documents, fileContents, currentDocumentId, activeConnections,
                 openPages, now, hist, issued>>

ProcessTemplateSucceeded(r, buf) ==
  LET outputFilename == <<TimeStr(r.ts), "-form.docx">>
      memoryPath == DocsOutput \o outputFilename
      saved == saveFile(fileContents, outputFilename, buf)
      documentData == [name |-> <<"Processed Form">>, originalName |-> outputFilename,
                       mimeType |-> DocxMime, size |-> Len(buf), path |-> memoryPath,
                       status |-> "processed", processedPath |-> memoryPath]
      created == createDocument(documents, currentDocumentId, documentData, now)
  IN /\ CanCreate /\ CanStore(saved.path)
     /\ inflight' = inflight (-) SetToBag({r})
     /\ fileContents' = saved.fc
     /\ documents' = created.docs
     /\ currentDocumentId' = created.nextId
     /\ issued' = Max({issued, created.document.id})
     /\ hist' = HistPut(hist, created.document.id, HistEntry("template", buf))
     /\ last' = Resp("templateDone", created.document.id, 200, "processed", Null, Null)
     /\ UNCHANGED <<activeConnections, openPages, now>>

\* the script's output is drawn from bufs
ProcessTemplateDoneOf(bufs) ==
  \E r \in BagToSet(inflight) :
    /\ r.kind = "template"
    /\ \/ ProcessTemplateFailed(r)
       \/ \E buf \in bufs : ProcessTemplateSucceeded(r, buf)

ProcessTemplateDone == ProcessTemplateDoneOf(Bytes)

-----------------------------------------------------------------------------
(* POST /api/process-template-in-memory *)

ProcessTemplateInMemoryStart ==
  /\ CanSuspend
  /\ inflight' = inflight (+) SetToBag({Request("templateMem", 0, now)})
  /\ last' = Resp("templateMem", 0, 0, "", Null, Null)
  /\ UNCHANGED <<documents, fileContents, currentDocumentId, activeConnections,
                 openPages, now, hist, issued>>

\* the script exited non-zero or timed out, or printed no DOCX data
ProcessTemplateInMemoryFailed(r) ==
  /\ inflight' = inflight (-) SetToBag({r})
  /\ last' = Resp("templateMemDone", 0, 500, "failed", Null, Null)
  /\ UNCHANGED <<documents, fileContents, currentDocumentId, activeConnections,
                 openPages, now, hist, issued>>

ProcessTemplateInMemorySucceeded(r, buf) ==
  LET outputFilename == <<TimeStr(r.ts), "-template_processed.docx">>
      processedPath == DocsOutput \o outputFilename
      saved == saveFile(fileContents, outputFilename, buf)
      documentData == [name |-> <<"Processed Template">>, originalName |-> templateName,
                       mimeType |-> DocxMime, size |-> Len(buf),
                       path |-> <<"template", "/">> \o templateName,
                       status |-> "processed", processedPath |-> processedPath]
      created == createDocument(documents, currentDocumentId, documentData, now)
  IN /\ CanCreate /\ CanStore(saved.path)
     /\ inflight' = inflight (-) SetToBag({r})
     /\ fileContents' = saved.fc
     /\ documents' = created.docs
     /\ currentDocumentId' = created.nextId
     /\ issued' = Max({issued, created.document.id})
     /\ hist' = HistPut(hist, created.document.id, HistEntry("templateMem", buf))
     /\ last' = Resp("templateMemDone", created.document.id, 200, "processed", Null, Null)
     /\ UNCHANGED <<activeConnections, openPages, now>>

ProcessTemplateInMemoryDoneOf(bufs) ==
  \E r \in BagToSet(inflight) :
    /\ r.kind = "templateMem"
    /\ \/ ProcessTemplateInMemoryFailed(r)
       \/ \E buf \in bufs : ProcessTemplateInMemorySucceeded(r, buf)

ProcessTemplateInMemoryDone == ProcessTemplateInMemoryDoneOf(Bytes)

-----------------------------------------------------------------------------
(* POST /api/form-document-upload *)

fileExists(fc, name) ==
  LET allFileNames == getAllFileNames(fc)
      baseName == basename(name)
  IN \E i \in 1..Len(allFileNames) :
       \/ allFileNames[i] = name
       \/ allFileNames[i] = ResultsDir \o name
       \/ allFileNames[i] = baseName
       \/ EndsWith(allFileNames[i], <<"/">> \o baseName)

\* req.body.name is drawn from names, the decoded content from bufs, req.body.type
\* from types
FormDocumentUploadTyped(names, bufs, types) ==
  \E name \in names, content \in bufs \cup {Null}, type \in types :
    IF content = Null
    THEN \* a missing content field, or content that decodes to no bytes
         /\ last' = Resp("formUpload", 0, 400, "", Null, Null)
         /\ UNCHANGED <<documents, fileContents, currentDocumentId, activeConnections,
                        openPages, now, inflight, hist, issued>>
    ELSE IF fileExists(fileContents, name)
    THEN /\ last' = Resp("formUpload", 0, 200, "duplicate", Null, Null)
         /\ UNCHANGED <<documents, fileContents, currentDocumentId, activeConnections,
                        openPages, now, inflight, hist, issued>>
    ELSE LET saved == saveFile(fileContents, name, content)
         IN IF EndsWith(name, <<"-form.docx">>)
            THEN /\ CanStore(saved.path)
                 /\ fileContents' = saved.fc
                 /\ last' = Resp("formUpload", 0, 200, "stored", Null, Null)
                 /\ UNCHANGED <<documents, currentDocumentId, activeConnections,
                                openPages, now, inflight, hist, issued>>
            ELSE LET documentData == [name |-> name, originalName |-> name,
                                      mimeType |-> type, size |-> Len(content),
                                      path |-> name, status |-> "processed",
                                      processedPath |-> name]
                     created == createDocument(documents, currentDocumentId,
                                               documentData, now)
                 IN /\ CanCreate /\ CanStore(saved.path)
                    /\ fileContents' = saved.fc
                    /\ documents' = created.docs
                    /\ currentDocumentId' = created.nextId
                    /\ issued' = Max({issued, created.document.id})
                    /\ hist' = HistPut(hist, created.document.id,
                                       HistEntry("formUpload", content))
                    /\ last' = Resp("formUpload", created.document.id, 201, "processed",
                                    Null, Null)
                    /\ UNCHANGED <<activeConnections, openPages, now, inflight>>

FormDocumentUploadNamed(names, bufs) == FormDocumentUploadTyped(names, bufs, FormTypes)

FormDocumentUploadOf(bufs) == FormDocumentUploadNamed(FormNames, bufs)

FormDocumentUpload == FormDocumentUploadOf(Bytes)

-----------------------------------------------------------------------------
(* The listings of synthesized documents: GET /api/output-files, GET /api/form-documents *)

OutputIdBase == 3000
FormIdBase == 2000

\* the registry keys in the order of getAllDocuments: newest first, and among equal
\* times in insertion order (the sort is stable)
getAllDocuments(docs) ==
  CHOOSE s \in [1..Cardinality(DOMAIN docs) -> DOMAIN docs] :
    \A i, j \in 1..Cardinality(DOMAIN docs) :
      i < j => \/ docs[s[i]].uploadedAt > docs[s[j]].uploadedAt
               \/ docs[s[i]].uploadedAt = docs[s[j]].uploadedAt /\ s[i] < s[j]

\* basename.startsWith('DO')
StartsWithDO(s) == s # <<>> /\ s[1] \in {"DO_UW WS_", templateName[1]}

\* the documents synthesized from a list of file names: ids count the list's positions
\* from idBase, and the names getFile does not resolve are dropped afterwards
synthesized(fc, files, idBase) ==
  LET item(i) == [id |-> idBase + (i - 1), name |-> basename(files[i]),
                  path |-> files[i], size |-> Len(getFile(fc, files[i]))]
      kept == {i \in 1..Len(files) : getFile(fc, files[i]) # Undefined}
      order == CHOOSE o \in [1..Cardinality(kept) -> kept] :
                 \A i, j \in 1..Cardinality(kept) : i < j => o[i] < o[j]
  IN [k \in 1..Cardinality(kept) |-> item(order[k])]

outputFiles(fc) ==
  synthesized(fc, SelectSeq(getAllFileNames(fc), LAMBDA f : StartsWithDO(basename(f))),
              OutputIdBase)

isFormDocFile(fileName) ==
  \/ EndsWith(fileName, <<"-form.docx">>)
  \/ StartsWith(fileName, <<"DO_UW WS_">>)
  \/ StartsWith(basename(fileName), <<"DO_UW WS_">>)

\* mutant: the fallback numbers a record from the id it already carries
fallbackId_fromOwnId(doc, i) == FormIdBase + doc.id

\* the id the fallback writes into the i-th processed record (i counts from 0)
fallbackId(doc, i) == FormIdBase + i

\* GET /api/form-documents: the response body, and the registry after the call (the
\* fallback writes the synthetic id into the stored records themselves)
formDocuments(docs, fc) ==
  LET validFormDocuments ==
        synthesized(fc, SelectSeq(getAllFileNames(fc), isFormDocFile), FormIdBase)
      recent == getAllDocuments(docs)
      processedKeys == SelectSeq(recent, LAMBDA k : docs[k].status = "processed"
                                                     /\ docs[k].processedPath # Null)
      processedDocs == SubSeq(processedKeys, 1, Min({5, Len(processedKeys)}))
      position(k) == CHOOSE i \in 1..Len(processedDocs) : processedDocs[i] = k
      docs1 == [k \in DOMAIN docs |->
                  IF \E i \in 1..Len(processedDocs) : processedDocs[i] = k
                  THEN [docs[k] EXCEPT !.id = fallbackId(docs[k], position(k) - 1)]
                  ELSE docs[k]]
  IN IF Len(validFormDocuments) = 0 /\ Len(processedDocs) > 0
     THEN [body |-> [i \in 1..Len(processedDocs) |->
                       [id |-> docs1[processedDocs[i]].id,
                        name |-> docs1[processedDocs[i]].name,
                        path |-> docs1[processedDocs[i]].path,
                        size |-> docs1[processedDocs[i]].size]],
           docs |-> docs1, note |-> "fallback"]
     ELSE [body |-> validFormDocuments, docs |-> docs, note |-> "files"]

OutputFilesList ==
  /\ last' = [Resp("outputFiles", 0, 200, "files", Null, Null)
                EXCEPT !.body = outputFiles(fileContents)]
  /\ UNCHANGED <<documents, fileContents, currentDocumentId, activeConnections,
                 openPages, now, inflight, hist, issued>>

FormDocumentsList ==
  LET listed == formDocuments(documents, fileContents)
  IN /\ documents' = listed.docs
     /\ last' = [Resp("formDocuments", 0, 200, listed.note, Null, Null)
                   EXCEPT !.body = listed.body]
     /\ UNCHANGED <<fileContents, currentDocumentId, activeConnections, openPages, now,
                    inflight, hist, issued>>

-----------------------------------------------------------------------------
(* The browser client: Home.startProcessing *)

\* name.includes('TEMPLATE'): of the names of the universe only the template's has it
IncludesTEMPLATE(s) == \E i \in 1..Len(s) : s[i] = templateName[1]

\* GET /api/documents: the records the client's documents query holds, newest first
listedDocuments(docs) ==
  LET shown(k) == /\ ~IncludesTEMPLATE(docs[k].name)
                  /\ ~IncludesTEMPLATE(docs[k].originalName)
                  /\ ~StartsWithDO(docs[k].name)
                  /\ ~StartsWithDO(docs[k].originalName)
      keys == SelectSeq(getAllDocuments(docs), shown)
  IN [i \in 1..Len(keys) |-> docs[keys[i]]]

\* the page's allUploadedDocuments
allUploadedDocuments(docs) ==
  SelectSeq(listedDocuments(docs), LAMBDA doc : ~StartsWithDO(doc.name))

\* the document startProcessing picks: the first that is pending (or 'uploaded'),
\* otherwise the first of the list whatever its status
docToProcess(uploaded) ==
  LET waiting == {i \in 1..Len(uploaded) : uploaded[i].status \in {"pending", "uploaded"}}
  IN IF waiting # {} THEN uploaded[Min(waiting)] ELSE uploaded[1]

\* startProcessing of a page whose documents query has just been refreshed: the page
\* posts the document id to the processor itself, and no request goes to the server
ClientStartProcessing ==
  LET uploaded == allUploadedDocuments(documents)
  IN /\ Len(uploaded) > 0
     /\ CanSuspend
     /\ \A r \in BagToSet(inflight) : r.kind # "clientProcess"    \* isProcessing
     /\ inflight' = inflight (+) SetToBag({Request("clientProcess",
                                                   docToProcess(uploaded).id, 0)})
     /\ last' = Resp("clientProcess", docToProcess(uploaded).id, 0,
                     docToProcess(uploaded).status, Null, Null)
     /\ UNCHANGED <<documents, fileContents, currentDocumentId, activeConnections,
                    openPages, now, hist, issued>>

\* the processor answers the page (or the fetch fails): the page shows a toast
ClientProcessingResponse ==
  \E r \in BagToSet(inflight) :
    /\ r.kind = "clientProcess"
    /\ inflight' = inflight (-) SetToBag({r})
    /\ last' = Resp("clientProcessDone", r.id, 0, "", Null, Null)
    /\ UNCHANGED <<documents, fileContents, currentDocumentId, activeConnections,
                   openPages, now, hist, issued>>

-----------------------------------------------------------------------------
(* The retention sweep: POST /api/clear-memory and the last page connection closing *)

\* clearInputAndOutputDirectories
Sweep ==
  LET swept == clearInputAndOutputDirectories(documents, fileContents, currentDocumentId)
  IN /\ fileContents' = swept.fc
     /\ documents' = swept.docs
     /\ currentDocumentId' = swept.nextId
     /\ issued' = issued
     /\ hist' = <<>>

ClearMemory ==
  /\ Sweep
  /\ last' = Resp("clear", Cardinality(DOMAIN documents), 200, "swept", Null, Null)
  /\ UNCHANGED <<activeConnections, openPages, now, inflight>>

\* a page request (not /api, no '.' in the path) is counted
PageOpen ==
  /\ openPages < MaxConn
  /\ openPages' = openPages + 1
  /\ activeConnections' = activeConnections + 1
  /\ last' = Resp("pageOpen", 0, 0, "", Null, Null)
  /\ UNCHANGED <<documents, fileContents, currentDocumentId, now, inflight, hist, issued>>

\* mutant: every close of a counted request sweeps
noActiveConnections_always(count) == TRUE

\* the test the close handler makes after the decrement
noActiveConnections(count) == count <= 0

\* mutant: a close resets the counter
connectionClosed_reset(count) == 0

\* activeConnections-- of the close handler
connectionClosed(count) == count - 1

\* res.on('close') of a counted request: each open response emits it once
PageClose ==
  /\ openPages > 0
  /\ openPages' = openPages - 1
  /\ activeConnections' = connectionClosed(activeConnections)
  /\ IF noActiveConnections(activeConnections')
     THEN /\ Sweep
          /\ last' = Resp("pageClose", Cardinality(DOMAIN documents), 0, "swept", Null, Null)
     ELSE /\ last' = Resp("pageClose", 0, 0, "", Null, Null)
          /\ UNCHANGED <<documents, fileContents, currentDocumentId, hist, issued>>
  /\ UNCHANGED <<now, inflight>>

\* the clock advances
Tick ==
  /\ now < MaxTime
  /\ now' = now + 1
  /\ last' = Resp("tick", 0, 0, "", Null, Null)
  /\ UNCHANGED <<documents, fileContents, currentDocumentId, activeConnections,
                 openPages, inflight, hist, issued>>

-----------------------------------------------------------------------------
(* The bundled server build, dist/index.js: its MemStorage has the same three fields, *)
(* keys its blobs by relative paths and keeps its directories as absolute paths       *)

\* path.resolve(process.cwd(), "documents", "input") and (..., "output"): absolute
distInputDir == <<"/", "cwd", "/", "documents", "/", "input">>
distOutputDir == <<"/", "cwd", "/", "documents", "/", "output">>

distSaveFile(fc, originalName, fileBuffer) ==
  LET virtualPath ==
        IF Includes(originalName, "-form.docx") \/ Includes(originalName, "template_processed")
        THEN ResultsDir \o originalName
        ELSE DocsInput \o originalName
  IN [path |-> virtualPath, fc |-> MapSet(fc, virtualPath, fileBuffer)]

\* the two loops of the bundled clearInputAndOutputDirectories
distClearedFiles(fc) ==
  LET fc1 == SelectSeq(fc, LAMBDA e : ~StartsWith(e.path, distInputDir))
  IN SelectSeq(fc1, LAMBDA e : ~StartsWith(e.path, distOutputDir))

distClearInputAndOutputDirectories(docs, fc, nextId) ==
  [docs |-> <<>>, fc |-> distClearedFiles(fc), nextId |-> 1]

\* POST /api/documents of the bundle
DistUpload ==
  \E originalname \in OrigNames, buf \in Bytes :
    LET fileName == uploadFileName(now, "r1", originalname)
        saved == distSaveFile(fileContents, fileName, buf)
        documentData == [name |-> originalname, originalName |-> originalname,
                         mimeType |-> "application/pdf", size |-> Len(buf),
                         path |-> saved.path, status |-> "pending",
                         processedPath |-> Null]
        created == createDocument(documents, currentDocumentId, documentData, now)
    IN /\ CanCreate /\ CanStore(saved.path)
       /\ fileContents' = saved.fc
       /\ documents' = created.docs
       /\ currentDocumentId' = created.nextId
       /\ issued' = Max({issued, created.document.id})
       /\ hist' = HistPut(hist, created.document.id, HistEntry("distUpload", buf))
       /\ last' = Resp("distUpload", created.document.id, 201, "pending", Null, Null)
       /\ UNCHANGED <<activeConnections, openPages, now, inflight>>

\* POST /api/clear-memory of the bundle
DistClearMemory ==
  LET swept == distClearInputAndOutputDirectories(documents, fileContents,
                                                  currentDocumentId)
  IN /\ fileContents' = swept.fc
     /\ documents' = swept.docs
     /\ currentDocumentId' = swept.nextId
     /\ issued' = issued
     /\ hist' = <<>>
     /\ last' = Resp("distClear", Cardinality(DOMAIN documents), 200, "swept", Null, Null)
     /\ UNCHANGED <<activeConnections, openPages, now, inflight>>

\* the bundle's registry and blob store under upload, delete and sweep
NextDist ==
  \/ DistUpload
  \/ Delete
  \/ DistClearMemory
  \/ Tick

-----------------------------------------------------------------------------
(* The state after construction and the startup sweep *)

Init ==
  /\ documents = <<>>
  /\ fileContents = <<>>
  /\ currentDocumentId = 1
  /\ activeConnections = 0
  /\ openPages = 0
  /\ now = 1
  /\ inflight = EmptyBag
  /\ last = Resp("init", 0, 0, "", Null, Null)
  /\ issued = 0
  /\ hist = <<>>

Next ==
  \/ Upload
  \/ ProcessStart
  \/ ProcessResponse
  \/ Delete
  \/ SetStatus
  \/ ProcessTemplateStart
  \/ ProcessTemplateDone
  \/ ProcessTemplateInMemoryStart
  \/ ProcessTemplateInMemoryDone
  \/ FormDocumentUpload
  \/ OutputFilesList
  \/ FormDocumentsList
  \/ ClientStartProcessing
  \/ ClientProcessingResponse
  \/ ClearMemory
  \/ PageOpen
  \/ PageClose
  \/ Tick

Spec == Init /\ [][Next]_vars

\* the blob store and the registry under every route that stores or removes a blob
NextStore ==
  \/ ProcessTemplateInMemoryStart
  \/ ProcessTemplateInMemoryDone
  \/ ProcessTemplateStart
  \/ ProcessTemplateDone
  \/ FormDocumentUpload
  \/ Upload
  \/ Delete
  \/ ClearMemory
  \/ Tick

SpecStore == Init /\ [][NextStore]_vars

\* the results namespace under the routes that save results-classified names
NextAlias ==
  \/ \E buf \in Bytes : UploadAccepted(<<"b", "-form.docx">>, "application/pdf", buf, "r1")
  \/ FormDocumentUploadNamed(AliasNames, Bytes)
  \/ ProcessTemplateStart
  \/ ProcessTemplateDone
  \/ Delete
  \/ ClearMemory
  \/ Tick

SpecAlias == Init /\ [][NextAlias]_vars

\* the registry ids and the listings of synthesized documents
NextListing ==
  \/ UploadAccepted(<<"a.pdf">>, "application/pdf", <<1>>, "r1")
  \/ FormDocumentUploadNamed(ListNames, {<<1>>})
  \/ Delete
  \/ OutputFilesList
  \/ FormDocumentsList
  \/ ClearMemory
  \/ Tick

SpecListing == Init /\ [][NextListing]_vars

\* the fields of the registry records under every route that writes them
NextFields ==
  \/ \E mime \in UploadMimes :
       UploadRejected(mime) \/ UploadAccepted(<<"a.pdf">>, mime, <<1>>, "r1")
  \/ FormDocumentUploadTyped({<<"c.pdf">>}, {<<1>>}, AnyFormTypes)
  \/ ProcessTemplateStart
  \/ ProcessTemplateDoneOf({<<1>>})
  \/ ProcessStart
  \/ ProcessResponse
  \/ SetStatus
  \/ Delete

SpecFields == Init /\ [][NextFields]_vars

\* the status field under every route that writes it
NextStatus ==
  \/ UploadAccepted(<<"a.pdf">>, "application/pdf", <<1>>, "r1")
  \/ FormDocumentUploadNamed({<<"c.pdf">>}, {<<1>>})
  \/ ProcessTemplateStart
  \/ ProcessTemplateDoneOf({<<1>>})
  \/ ProcessStart
  \/ ProcessResponse
  \/ SetStatusOf({"pending", "done"})

SpecStatus == Init /\ [][NextStatus]_vars

\* the results namespace under the routes that write it, the template runs producing
\* any bytes
NextResults ==
  \/ UploadAccepted(<<"b", "-form.docx">>, "application/pdf", <<1>>, "r1")
  \/ ProcessTemplateStart
  \/ ProcessTemplateDone
  \/ FormDocumentUploadOf({<<1>>})
  \/ Delete
  \/ Tick

SpecResults == Init /\ [][NextResults]_vars

\* createDocument under both shapes of metadata: with a status (the upload route) and
\* without one (the upload route of the earlier variant)
NextCreate ==
  \/ \E originalname \in OrigNames, buf \in Bytes :
       UploadEarlier(originalname, "application/pdf", buf)
  \/ \E originalname \in OrigNames :
       UploadAccepted(originalname, "application/pdf", <<1>>, "r1")
  \/ Delete
  \/ ClearMemory
  \/ Tick

SpecCreate == Init /\ [][NextCreate]_vars

\* every way a document id reaches the processor: the process route and the page
NextDispatch ==
  \/ UploadAccepted(<<"a.pdf">>, "application/pdf", <<1>>, "r1")
  \/ ProcessStart
  \/ ProcessResponse
  \/ ClientStartProcessing
  \/ ClientProcessingResponse
  \/ Delete

SpecDispatch == Init /\ [][NextDispatch]_vars

\* the process route left to itself: requests from outside may come or not, and every
\* fetch to the processor ends (with an answer, or with the failure the runtime raises
\* when none comes), after which the handler runs on
NextProcessing ==
  \/ UploadAccepted(<<"a.pdf">>, "application/pdf", <<1>>, "r1")
  \/ ProcessStart
  \/ ProcessResponse
  \/ Delete
  \/ ClearMemory

SpecProcessing == Init /\ [][NextProcessing]_vars /\ WF_vars(ProcessResponse)

SpecDist == Init /\ [][NextDist]_vars

\* the document lifecycle: one uploaded file name, every status route
NextLifecycle ==
  \/ UploadAccepted(<<"a.pdf">>, "application/pdf", <<1>>, "r1")
  \/ ProcessStart
  \/ ProcessResponse
  \/ SetStatus
  \/ Delete
  \/ ClearMemory

SpecLifecycle == Init /\ [][NextLifecycle]_vars

\* the retention sweep after the disk-era routes that create a record or a blob, with one
\* random draw and one content per file and the clock standing still (the sweep reads
\* neither)
NextSweep ==
  \/ \E originalname \in OrigNames :
       UploadAccepted(originalname, "application/pdf", <<1>>, "r1")
  \/ Delete
  \/ ProcessTemplateStart
  \/ ProcessTemplateDoneOf({<<1>>})
  \/ FormDocumentUploadOf({<<1>>})
  \/ ClearMemory
  \/ PageOpen
  \/ PageClose

SpecSweep == Init /\ [][NextSweep]_vars

-----------------------------------------------------------------------------
(* Properties *)

\* C1: every document created by POST /api/documents with bytes B has size = len(B),
\* is answered with status 'pending', and as long as it is in the registry (not
\* deleted, no sweep since) its download answers 200 with exactly B.
C1_UploadRoundTrip ==
  /\ (last.op = "upload" /\ last.code = 201) =>
        /\ documents[last.id].status = "pending"
        /\ documents[last.id].size = Len(hist[last.id].bytes)
  /\ \A id \in DOMAIN documents :
        hist[id].route = "upload" =>
          /\ documents[id].size = Len(hist[id].bytes)
          /\ Download(documents, fileContents, id) =
               [code |-> 200, body |-> hist[id].bytes]

\* C2: a process request on an existing document whose status is not 'pending' is
\* answered 400 naming the current status, dispatches nothing to the processor and
\* leaves the registry and the blob store unchanged.
C2_RejectedWhenNotPending ==
  [][ (/\ last'.op = "process"
       /\ last'.id \in DOMAIN documents
       /\ documents[last'.id].status # "pending")
      => (/\ last'.code = 400
          /\ last'.note = documents[last'.id].status
          /\ inflight' = inflight
          /\ documents' = documents
          /\ fileContents' = fileContents
          /\ currentDocumentId' = currentDocumentId) ]_vars

C2_Witness ==
  /\ last.op = "process" /\ last.code = 400
  /\ last.id \in DOMAIN documents
  /\ documents[last.id].status = "processed"
  /\ last.note = "processed"

\* C3: when a process request is accepted, the registry already shows the document
\* as 'processing' in the state in which the request to the processor is in flight,
\* the state every upstream response starts from.
C3_ProcessingAtDispatch ==
  (last.op = "process" /\ last.code = 0) =>
     /\ BagIn(Request("process", last.id, 0), inflight)
     /\ last.id \in DOMAIN documents
     /\ documents[last.id].status = "processing"
     /\ last.note = "processing"

C3_Witness ==
  /\ last.op = "process" /\ last.code = 0
  /\ BagIn(Request("process", last.id, 0), inflight)

\* C4: of the process requests made for one document whose status no set-status call
\* has written, at most one is dispatched to the processor; any other, whether it comes
\* while the first is suspended or after it ended, is answered 400 by the guard.
C4_AtMostOneDispatch ==
  \A id \in DOMAIN hist :
    /\ hist[id].life # "twice"
    /\ (last.op = "process" /\ last.id = id /\ hist[id].life = "dispatched")
         => \/ last.code = 400
            \/ last.code = 0 /\ BagIn(Request("process", id, 0), inflight)

C4_Witness ==
  /\ last.op = "process" /\ last.code = 400
  /\ last.id \in DOMAIN hist
  /\ hist[last.id].life = "dispatched"
  /\ BagIn(Request("process", last.id, 0), inflight)

\* C5: once a document's status is 'processed' or 'error', no later state of that
\* document has status 'pending' or 'processing'.
C5_TerminalStatuses ==
  [][ \A id \in DOMAIN documents \cap DOMAIN documents' :
        documents[id].status \in {"processed", "error"}
          => documents'[id].status \notin {"pending", "processing"} ]_vars

\* C6: when the external call of an accepted process request fails, the handler
\* answers 500 and the document, if the registry still has one under that id, has
\* status 'error' when the response is sent.
C6_FailureMarksError ==
  (last.op = "processDone" /\ last.note # "ok") =>
     /\ last.code = 500
     /\ last.id \in DOMAIN documents => documents[last.id].status = "error"

C6_Witness ==
  /\ last.op = "processDone" /\ last.note = "fetchFailed" /\ last.code = 500
  /\ last.id \in DOMAIN documents
  /\ documents[last.id].status = "error"

\* C7: when the processor reports success for an accepted request, the document's
\* status is 'processed' and its processedPath is set and resolves in the blob store.
C7_SuccessMarksProcessed ==
  (last.op = "processDone" /\ last.note = "ok" /\ last.id \in DOMAIN documents) =>
     /\ documents[last.id].status = "processed"
     /\ documents[last.id].processedPath # Null
     /\ getFile(fileContents, documents[last.id].processedPath) # Undefined

\* C8: for every document in the registry, getFile(path) returns bytes, and so does
\* getFile(processedPath) when processedPath is set.
C8_NoDanglingPaths ==
  \A id \in DOMAIN documents :
    /\ getFile(fileContents, documents[id].path) # Undefined
    /\ documents[id].processedPath # Null
         => getFile(fileContents, documents[id].processedPath) # Undefined

\* C9: after deleteDocument(D.id) returned true, the registry has no record under
\* D.id and getFile finds nothing at D.path, nor at D.processedPath when it was set.
C9_DeleteRemovesBoth ==
  (last.op = "delete" /\ last.code = 200) =>
     /\ last.id \notin DOMAIN documents
     /\ getFile(fileContents, last.path) = Undefined
     /\ last.ppath # Null => getFile(fileContents, last.ppath) = Undefined

\* C10: after the sweep the registry is empty, the blob store has no entry in the
\* input or the results namespace under any of their spellings, and the next
\* createDocument returns id 1.
Swept == last.note = "swept" /\ last.op \in {"clear", "pageClose"}

InInputOrResults(path) ==
  \/ StartsWith(path, MemInput) \/ StartsWith(path, MemResults)
  \/ StartsWith(path, DocsInput) \/ StartsWith(path, DocsOutput)
  \/ StartsWith(path, ResultsDir)

C10_SweepPostcondition ==
  Swept =>
    /\ documents = <<>>
    /\ \A i \in 1..Len(fileContents) : ~InInputOrResults(fileContents[i].path)
    /\ \A name \in OrigNames :
         createDocument(documents, currentDocumentId,
                        [name |-> name, originalName |-> name,
                         mimeType |-> "application/pdf", size |-> 1,
                         path |-> MemInput \o name, status |-> "pending",
                         processedPath |-> Null], now).document.id = 1

\* the sweep has just cleared a registry that held records
C10_Witness == Swept /\ last.id > 0 /\ documents = <<>> /\ fileContents = <<>>

\* C11: from every reachable state, running the sweep twice in a row leaves the same
\* registry, blob store and id counter as running it once.
C11_SweepIdempotent ==
  LET once == clearInputAndOutputDirectories(documents, fileContents, currentDocumentId)
      twice == clearInputAndOutputDirectories(once.docs, once.fc, once.nextId)
  IN twice = once

\* a state the sweep changes in every part: records, blobs of both namespaces, counter
C11_Witness ==
  /\ documents # <<>> /\ currentDocumentId > 1
  /\ \E i \in 1..Len(fileContents) : StartsWith(fileContents[i].path, MemInput)
  /\ \E i \in 1..Len(fileContents) : StartsWith(fileContents[i].path, MemResults)
  /\ clearInputAndOutputDirectories(documents, fileContents, currentDocumentId).fc
       # fileContents

\* C12: every blob saved under a results-classified name n is returned by getFile,
\* with exactly its bytes, for each prefixed spelling of its path: memory://results/n,
\* Results/n and documents/output/n, whatever other blobs the store holds.
resultsName(path) == SubSeq(path, Len(MemResults) + 1, Len(path))

C12_PathAlias ==
  \A i \in 1..Len(fileContents) :
    StartsWith(fileContents[i].path, MemResults) =>
      \A prefix \in {MemResults, ResultsDir, DocsOutput} :
        getFile(fileContents, prefix \o resultsName(fileContents[i].path))
          = fileContents[i].buf

\* C13: two consecutive calls of GET /api/form-documents (of GET /api/output-files),
\* with no other request between them, answer the same synthetic ids, each id with
\* the same path.
idPaths(body) == {[id |-> body[i].id, path |-> body[i].path] : i \in 1..Len(body)}

C13_SyntheticIdsStable ==
  [][ /\ (last.op = "formDocuments" /\ last'.op = "formDocuments")
           => idPaths(last'.body) = idPaths(last.body)
      /\ (last.op = "outputFiles" /\ last'.op = "outputFiles")
           => idPaths(last'.body) = idPaths(last.body) ]_vars

\* the fallback listing has answered and has written its ids into the registry, and
\* the call that follows answers the same
C13_Witness ==
  /\ last.op = "formDocuments" /\ last.note = "fallback" /\ Len(last.body) > 1
  /\ \E k \in DOMAIN documents : documents[k].id = FormIdBase + 1
  /\ formDocuments(documents, fileContents).body = last.body

\* C14: every id createDocument returns is strictly greater than every id it returned
\* before in the same process, whatever deletes and sweeps came between.
C14_IdsIncrease ==
  [][ \A id \in DOMAIN documents' \ DOMAIN documents : id > issued ]_vars

\* C15: no id that GET /api/form-documents or GET /api/output-files has just given to
\* a synthesized document is the id of another document that is in the registry.
C15_SyntheticIdsDisjoint ==
  (last.op \in {"formDocuments", "outputFiles"}) =>
     \A i \in 1..Len(last.body) : \A k \in DOMAIN documents :
        documents[k].id = last.body[i].id => documents[k].path = last.body[i].path

\* C16: every registry document whose processedPath is set has status 'processed'.
C16_ProcessedPathOnlyWhenProcessed ==
  \A id \in DOMAIN documents :
    documents[id].processedPath # Null => documents[id].status = "processed"

\* C17: the status of every registry document is one of 'pending', 'processing',
\* 'processed', 'error'.
C17_StatusInEnum ==
  \A id \in DOMAIN documents : documents[id].status \in Statuses

\* set-status has refused a status outside the enum for a document that exists, and
\* the registry holds a document the failure path has marked
C17_Witness ==
  /\ last.op = "setStatus" /\ last.code = 400 /\ last.note = "done"
  /\ last.id \in DOMAIN documents
  /\ \E id \in DOMAIN documents : documents[id].status = "error"
  /\ \E id \in DOMAIN documents : documents[id].status = "processed"

\* C18: the mimeType of every registry document is in SUPPORTED_FILE_TYPES.
C18_MimeTypeAllowed ==
  \A id \in DOMAIN documents : documents[id].mimeType \in SUPPORTED_FILE_TYPES

\* C19: a results path that the blob store maps to bytes B still maps to B in the next
\* state whenever it is still present: no step overwrites an existing results entry.
C19_ResultsImmutable ==
  [][ \A i \in 1..Len(fileContents) :
        (StartsWith(fileContents[i].path, MemResults)
           /\ MapHas(fileContents', fileContents[i].path))
        => MapGet(fileContents', fileContents[i].path) = fileContents[i].buf ]_vars

\* C20: a counted connection that closes and leaves the counter at zero runs the
\* sweep; a close that leaves the counter above zero leaves the registry, the blob
\* store and the id counter as they are.
C20_SweepOnLastClose ==
  [][ (activeConnections' = activeConnections - 1) =>
        IF activeConnections' = 0
        THEN /\ last'.note = "swept"
             /\ documents' = <<>>
             /\ fileContents' = clearedFiles(fileContents)
             /\ currentDocumentId' = 1
        ELSE /\ last'.note # "swept"
             /\ documents' = documents
             /\ fileContents' = fileContents
             /\ currentDocumentId' = currentDocumentId ]_vars

\* a connection has closed while another is open, and the records and blobs are kept
C20_Witness ==
  /\ last.op = "pageClose" /\ last.note # "swept"
  /\ activeConnections > 0
  /\ documents # <<>> /\ fileContents # <<>>

\* C21: when the failure path of a process request runs after a sweep removed the
\* request's document (the registry has no record under the request's id, or the record
\* now under that id was created after the sweep and never dispatched), the status
\* write changes no document of the registry.
C21_OrphanWritesNothing ==
  [][ (/\ last'.op = "processDone" /\ last'.code = 500
       /\ (last'.id \in DOMAIN hist => hist[last'.id].life = "fresh"))
      => documents' = documents ]_vars

\* C22: right after GET /api/form-documents or GET /api/output-files has answered with
\* documents synthesized from the stored file names, GET
\* /api/documents/s/download-processed for every listed document (id s, path p) answers
\* 200 with exactly the bytes the blob store holds for p.
C22_LookupAgreesWithListing ==
  (last.op \in {"formDocuments", "outputFiles"} /\ last.note = "files") =>
     \A i \in 1..Len(last.body) :
        DownloadProcessed(documents, fileContents, last.body[i].id)
          = [code |-> 200, body |-> getFile(fileContents, last.body[i].path)]

\* C23: a call of GET /api/form-documents or GET /api/output-files leaves the registry
\* (its ids and every field of every record) and the blob store as they were.
C23_ListingReadOnly ==
  [][ (last'.op \in {"formDocuments", "outputFiles"})
      => (documents' = documents /\ fileContents' = fileContents) ]_vars

\* C24: when getFile is called with a bare file name f that is not itself a stored
\* path and does not look like a processor output (so that only the match by file name
\* applies), and it returns bytes, the bytes are those of a stored blob whose basename
\* equals f; a blob whose basename only ends with f is never the one returned.
C24_BareNameResolution ==
  \A f \in BareNames :
    (/\ ~MapHas(fileContents, f)
     /\ ~(Includes(f, "-form.docx") \/ Includes(f, "_processed"))
     /\ getFile(fileContents, f) # Undefined) =>
       \E i \in 1..Len(fileContents) :
          /\ basename(fileContents[i].path) = f
          /\ fileContents[i].buf = getFile(fileContents, f)

\* C25: createDocument called with metadata that carries no status stores and returns
\* a record whose status is 'pending', whose id is the next id and whose uploadedAt is
\* the time of the call.
C25_DefaultStatusPending ==
  (last.op = "uploadEarlier" /\ last.code = 201) =>
     /\ last.id = currentDocumentId - 1
     /\ last.id \in DOMAIN documents
     /\ documents[last.id].id = last.id
     /\ documents[last.id].uploadedAt = now
     /\ documents[last.id].status = "pending"
     /\ last.note = "pending"

\* C26: whenever a process-document request for a document reaches the processor, from
\* the process route or from the page's startProcessing, the document is in the
\* registry with status 'pending' before the step that sends the request and with
\* status 'processing' after it.
C26_NoGuardBypass ==
  [][ \A r \in BagToSet(inflight') :
        (r.kind \in {"process", "clientProcess"}
           /\ CopiesIn(r, inflight') > CopiesIn(r, inflight))
        => /\ r.id \in DOMAIN documents /\ r.id \in DOMAIN documents'
           /\ documents[r.id].status = "pending"
           /\ documents'[r.id].status = "processing" ]_vars

\* C27: every document whose status is 'processing' eventually has status 'processed'
\* or 'error' or is no longer in the registry, given only that every call to the
\* processor ends, and no further request from outside the server.
C27_ProcessingEnds ==
  \A id \in 1..MaxId :
    (id \in DOMAIN documents /\ documents[id].status = "processing")
      ~> (id \notin DOMAIN documents \/ documents[id].status \in {"processed", "error"})

\* C28: in the bundled build, after clearInputAndOutputDirectories the blob map holds
\* no entry under a key saveFile produces ('documents/input/...' or 'Results/...').
C28_DistSweepPostcondition ==
  (last.op = "distClear") =>
     \A i \in 1..Len(fileContents) :
        /\ ~StartsWith(fileContents[i].path, DocsInput)
        /\ ~StartsWith(fileContents[i].path, ResultsDir)

C30_CounterMatchesOpenPages ==
  activeConnections >= 0 /\ activeConnections = openPages

\* two pages were open and one of them has closed
C30_Witness ==
  /\ last.op = "pageClose"
  /\ openPages = 1
  /\ activeConnections = 1

====
